---- MODULE Spec2Model ----
(***************************************************************************)
(* Outfit suggestion pipeline of the virtual closet                        *)
(* (lib/services/outfit-generator.ts): wardrobe and wear-history reads,    *)
(* context filter, candidate generation, scoring and top-K selection.      *)
(*                                                                         *)
(* Scores are fractions in the code (an average over 3..5 items).  The     *)
(* model keeps them exact as integers in units of 1/Scale, Scale being a   *)
(* common multiple of every possible item count of a candidate.            *)
(* Instants are counted in half days: 2*day is midnight (UTC) of a day,    *)
(* 2*day+1 stands for any later instant of the same day.                   *)
(***************************************************************************)
EXTENDS Integers, Sequences, FiniteSets, TLC

VARIABLES
  clothing_items,       \* wardrobe store: rows of clothing_items in query order
  outfit_logs,          \* wear-history store: rows of outfit_logs joined with outfits
  now,                  \* the instant at which the request runs (half days)
  weather,              \* params.weather
  formalityPreference,  \* params.formalityPreference
  pc,                   \* position inside generateOutfitSuggestions
  allItems,             \* result of fetchWardrobeItems
  recentlyWorn,         \* result of fetchRecentlyWornItems
  filteredItems,        \* result of filterItemsByContext
  candidates,           \* result of generateOutfitCandidates
  scoredOutfits,        \* candidates.map(scoreOutfit)
  suggestions,          \* the returned list
  error,                \* the read whose failure rejected the call, "none" otherwise
  cache,                \* weather service: the in-memory Map, by cache key
  clock,                \* weather service: Date.now() in milliseconds
  calls                 \* weather service: the fetchWeather calls, by caller

vars == <<clothing_items, outfit_logs, now, weather, formalityPreference, pc,
          allItems, recentlyWorn, filteredItems, candidates, scoredOutfits,
          suggestions, error, cache, clock, calls>>

pipelineVars == <<clothing_items, outfit_logs, now, weather, formalityPreference, pc,
                  allItems, recentlyWorn, filteredItems, candidates, scoredOutfits,
                  suggestions, error>>

weatherVars == <<cache, clock, calls>>

-----------------------------------------------------------------------------
(* Bounds of the model *)

MaxCore == 3        \* tops, bottoms and shoes of a wardrobe of like items
MaxMixedCore == 2   \* tops, bottoms and shoes of a wardrobe of differing items
MaxOuter == 3       \* outerwear items of a wardrobe
MaxAcc == 2         \* accessories of a wardrobe
MaxCount == 4       \* requested numbers of suggestions the selector is checked for
MaxLogs == 2        \* outfit logs of a wear history
MaxCallers == 2     \* fetchWeather calls, possibly concurrent
MaxTicks == 2       \* half hours the weather service's clock advances

-----------------------------------------------------------------------------
(* Arithmetic helpers *)

Scale == 3 * 4 * 5

Abs(x) == IF x < 0 THEN -x ELSE x

Min(a, b) == IF a < b THEN a ELSE b

Max(a, b) == IF a > b THEN a ELSE b

RECURSIVE ConcatAll(_)
ConcatAll(ss) == IF ss = <<>> THEN <<>> ELSE Head(ss) \o ConcatAll(Tail(ss))

RECURSIVE SumSeq(_)
SumSeq(s) == IF s = <<>> THEN 0 ELSE Head(s) + SumSeq(Tail(s))

SeqRange(s) == {s[i] : i \in 1..Len(s)}

-----------------------------------------------------------------------------
(* Data model (lib/types) *)

ClothingType == {"top", "bottom", "shoes", "outerwear", "accessory"}

FormalityLevel == {"casual", "business_casual", "formal"}

WeatherCondition == {"clear", "rain", "snow", "cloudy"}

\* JavaScript null in a candidate slot; id 0 is never the id of a stored row
\* (ids are AUTOINCREMENT, starting at 1).
Null == [id |-> 0, type |-> "null", color |-> "", warmth_rating |-> 0,
         formality_level |-> "null", tags |-> {}]

ClothingItem(id, type, color, warmth, formality, tags) ==
  [id |-> id, type |-> type, color |-> color, warmth_rating |-> warmth,
   formality_level |-> formality, tags |-> tags]

\* String.prototype.toLowerCase on the strings of the model's vocabulary.
toLowerCase(s) ==
  CASE s = "Summer" -> "summer"
    [] s = "Winter" -> "winter"
    [] s = "Waterproof" -> "waterproof"
    [] s = "Navy Blue" -> "navy blue"
    [] s = "Black" -> "black"
    [] OTHER -> s

\* String.prototype.includes(word) for a lower-cased colour of the vocabulary:
\* the colour words that occur in it as substrings.
ColorWords(c) ==
  CASE c = "navy blue" -> {"navy", "blue"}
    [] c = "dark green" -> {"green"}
    [] c = "" -> {}
    [] OTHER -> {c}

includes(color, word) == word \in ColorWords(color)

-----------------------------------------------------------------------------
(* Filtering logic *)

formalityLevels == [casual |-> 0, business_casual |-> 1, formal |-> 2]

\* A variant that compares the level difference without taking its absolute value.
isFormalityCompatibleSigned(itemFormality, preferredFormality) ==
  formalityLevels[itemFormality] - formalityLevels[preferredFormality] <= 1

\* A variant that stops after the exact-match test.
isFormalityCompatibleExact(itemFormality, preferredFormality) ==
  itemFormality = preferredFormality

isFormalityCompatible(itemFormality, preferredFormality) ==
  IF itemFormality = preferredFormality
    THEN TRUE
    ELSE LET itemLevel == formalityLevels[itemFormality]
             preferredLevel == formalityLevels[preferredFormality]
             levelDifference == Abs(itemLevel - preferredLevel)
         IN levelDifference <= 1

tempRanges ==
  [w \in 1..5 |->
     CASE w = 1 -> [min |-> 75, max |-> 120]
       [] w = 2 -> [min |-> 65, max |-> 85]
       [] w = 3 -> [min |-> 50, max |-> 70]
       [] w = 4 -> [min |-> 35, max |-> 55]
       [] w = 5 -> [min |-> -20, max |-> 50]]

tolerance == 10

\* A variant of the weather check that tests the upper end of the band alone.
isWeatherAppropriateNoLowerEnd(item, w) ==
  item.warmth_rating \in DOMAIN tempRanges
    => w.temperature <= tempRanges[item.warmth_rating].max + tolerance

\* A variant of the weather check that turns an item of unknown warmth away.
isWeatherAppropriateKnownOnly(item, w) ==
  /\ item.warmth_rating \in DOMAIN tempRanges
  /\ w.temperature >= tempRanges[item.warmth_rating].min - tolerance
  /\ w.temperature <= tempRanges[item.warmth_rating].max + tolerance

\* A variant of the weather check whose widened band excludes its two ends.
isWeatherAppropriateOpenBand(item, w) ==
  item.warmth_rating \in DOMAIN tempRanges
    => /\ w.temperature > tempRanges[item.warmth_rating].min - tolerance
       /\ w.temperature < tempRanges[item.warmth_rating].max + tolerance

isWeatherAppropriate(item, w) ==
  LET temp == w.temperature
      warmth == item.warmth_rating
  IN IF warmth \notin DOMAIN tempRanges
       THEN TRUE   \* unknown warmth rating, allow it
       ELSE LET range == tempRanges[warmth]
                isTemperatureAppropriate ==
                  temp >= range.min - tolerance /\ temp <= range.max + tolerance
            IN IF w.condition = "rain" \/ w.condition = "snow"
                 THEN isTemperatureAppropriate
                 ELSE isTemperatureAppropriate

SeasonOf(temp) ==
  IF temp >= 75 THEN "summer"
  ELSE IF temp >= 60 THEN "spring"
  ELSE IF temp >= 45 THEN "fall"
  ELSE "winter"

seasonCompatibility ==
  [summer |-> {"summer", "spring", "all-season", "year-round"},
   spring |-> {"spring", "summer", "fall", "all-season", "year-round"},
   fall   |-> {"fall", "spring", "winter", "all-season", "year-round"},
   winter |-> {"winter", "fall", "all-season", "year-round"}]

isSeasonAppropriate(item, w) ==
  LET season == SeasonOf(w.temperature)
      itemTags == {toLowerCase(tag) : tag \in item.tags}
      hasSeasonTag ==
        \E tag \in itemTags :
          tag \in {"summer", "spring", "fall", "winter", "all-season", "year-round"}
  IN IF ~hasSeasonTag
       THEN TRUE
       ELSE \E tag \in itemTags : tag \in seasonCompatibility[season]

\* A variant of the filter predicate without the season check.
PassesContextNoSeason(item, w, formality) ==
  /\ isFormalityCompatible(item.formality_level, formality)
  /\ isWeatherAppropriate(item, w)

\* A variant of the filter predicate without the formality check.
PassesContextNoFormality(item, w, formality) ==
  /\ isWeatherAppropriate(item, w)
  /\ isSeasonAppropriate(item, w)

PassesContext(item, w, formality) ==
  /\ isFormalityCompatible(item.formality_level, formality)
  /\ isWeatherAppropriate(item, w)
  /\ isSeasonAppropriate(item, w)

filterItemsByContext(items, w, formality) ==
  SelectSeq(items, LAMBDA item : PassesContext(item, w, formality))

-----------------------------------------------------------------------------
(* Outfit combination generation *)

groupItemsByType(items) ==
  [t \in ClothingType |-> SelectSeq(items, LAMBDA item : item.type = t)]

OutfitCandidate(top, bottom, shoe, outerwear, accessory) ==
  [top |-> top, bottom |-> bottom, shoes |-> shoe,
   outerwear |-> outerwear, accessory |-> accessory]

\* A variant that demands outerwear only below freezing.
requireOuterwearBelowFreezing(w) == w.temperature < 32

\* const requireOuterwear = weather.temperature < 50
requireOuterwear(w) == w.temperature < 50

\* A variant of the skip that looks at the top alone.
MissingCoreTopOnly(top, bottom, shoe) == top = Null

\* if (!top || !bottom || !shoe) continue
MissingCore(top, bottom, shoe) == top = Null \/ bottom = Null \/ shoe = Null

\* A variant that pushes no candidate with an accessory.
WithAccessoriesNone(top, bottom, shoe, outerwear, accessories) == <<>>

\* The candidates pushed with a given outerwear (or Null) and every accessory.
WithAccessories(top, bottom, shoe, outerwear, accessories) ==
  ConcatAll([a \in 1..Len(accessories) |->
    IF accessories[a] # Null
      THEN <<OutfitCandidate(top, bottom, shoe, outerwear, accessories[a])>>
      ELSE <<>>])

\* The body of the innermost loop for one top/bottom/shoes triple.
CandidatesOfTriple(top, bottom, shoe, outerwears, accessories, required) ==
  IF MissingCore(top, bottom, shoe)
    THEN <<>>
    ELSE IF required /\ Len(outerwears) > 0 /\ outerwears[1] # Null
      THEN ConcatAll([o \in 1..Len(outerwears) |->
             IF outerwears[o] = Null
               THEN <<>>
               ELSE <<OutfitCandidate(top, bottom, shoe, outerwears[o], Null)>>
                    \o WithAccessories(top, bottom, shoe, outerwears[o], accessories)])
      ELSE <<OutfitCandidate(top, bottom, shoe, Null, Null)>>
           \o WithAccessories(top, bottom, shoe, Null, accessories)
           \o ConcatAll([o \in 1..Len(outerwears) |->
                IF outerwears[o] = Null
                  THEN <<>>
                  ELSE <<OutfitCandidate(top, bottom, shoe, outerwears[o], Null)>>
                       \o WithAccessories(top, bottom, shoe, outerwears[o], accessories)])

OrNull(group) == IF Len(group) > 0 THEN group ELSE <<Null>>

generateOutfitCandidates(items, w) ==
  LET grouped == groupItemsByType(items)
      required == requireOuterwear(w)
      tops == OrNull(grouped["top"])
      bottoms == OrNull(grouped["bottom"])
      shoes == OrNull(grouped["shoes"])
      outerwears == OrNull(grouped["outerwear"])
      accessories == OrNull(grouped["accessory"])
  IN ConcatAll([t \in 1..Len(tops) |->
       ConcatAll([b \in 1..Len(bottoms) |->
         ConcatAll([s \in 1..Len(shoes) |->
           CandidatesOfTriple(tops[t], bottoms[b], shoes[s],
                              outerwears, accessories, required)])])])

-----------------------------------------------------------------------------
(* Scoring system; every score is in units of 1/Scale points *)

Slots == <<"top", "bottom", "shoes", "outerwear", "accessory">>

\* [top, bottom, shoes, outerwear, accessory].filter(item => item !== null)
NonNullItems(candidate) ==
  SelectSeq([i \in 1..5 |-> candidate[Slots[i]]], LAMBDA item : item # Null)

getOutfitItemIds(candidate) ==
  [i \in 1..Len(NonNullItems(candidate)) |-> NonNullItems(candidate)[i].id]

\* Math.max(0, Math.min(hi, x)) with hi in points
Clamp(x, hi) == Max(0, Min(hi * Scale, x))

\* A variant of the ideal warmth whose steps begin just above 75, 60 and 45.
idealWarmthAbove(temp) ==
  IF temp > 75 THEN (3 * Scale) \div 2
  ELSE IF temp > 60 THEN (5 * Scale) \div 2
  ELSE IF temp > 45 THEN (7 * Scale) \div 2
  ELSE (9 * Scale) \div 2

idealWarmth(temp) ==
  IF temp >= 75 THEN (3 * Scale) \div 2
  ELSE IF temp >= 60 THEN (5 * Scale) \div 2
  ELSE IF temp >= 45 THEN (7 * Scale) \div 2
  ELSE (9 * Scale) \div 2

waterproofTags == {"waterproof", "rain", "water-resistant"}

\* The weather score before the final Math.max(0, Math.min(30, .)).
RawWeatherScore(candidate, w) ==
  LET temp == w.temperature
      items == NonNullItems(candidate)
      totalWarmth == SumSeq([i \in 1..Len(items) |-> items[i].warmth_rating])
      avgWarmth == (totalWarmth * Scale) \div Len(items)
      warmthDiff == Abs(avgWarmth - idealWarmth(temp))
      base == 30 * Scale - warmthDiff * 6
      coldBonus == IF temp < 50 /\ candidate.outerwear # Null THEN 5 * Scale ELSE 0
      hasWaterproofTags ==
        \E i \in 1..Len(items) :
          \E tag \in items[i].tags : toLowerCase(tag) \in waterproofTags
      wetBonus == IF (w.condition = "rain" \/ w.condition = "snow") /\ hasWaterproofTags
                    THEN 5 * Scale ELSE 0
  IN base + coldBonus + wetBonus

\* A variant of the weather score without the final cap.
scoreWeatherMatchUncapped(candidate, w) ==
  IF Len(NonNullItems(candidate)) = 0 THEN 0 ELSE RawWeatherScore(candidate, w)

scoreWeatherMatch(candidate, w) ==
  IF Len(NonNullItems(candidate)) = 0
    THEN 0
    ELSE Clamp(RawWeatherScore(candidate, w), 30)

scoreFormalityMatch(candidate, preference) ==
  LET preferredLevel == formalityLevels[preference]
      items == NonNullItems(candidate)
      levelOf(i) == formalityLevels[items[i].formality_level]
      itemScore(i) ==
        LET levelDiff == Abs(levelOf(i) - preferredLevel)
        IN IF levelDiff = 0 THEN 25 ELSE IF levelDiff = 1 THEN 15 ELSE 0
      totalScore == SumSeq([i \in 1..Len(items) |-> itemScore(i)])
      avgScore == (totalScore * Scale) \div Len(items)
      levels == {levelOf(i) : i \in 1..Len(items)}
      maxLevel == CHOOSE l \in levels : \A m \in levels : m <= l
      minLevel == CHOOSE l \in levels : \A m \in levels : m >= l
      formalityVariance == maxLevel - minLevel
      consistencyPenalty == IF formalityVariance > 1 THEN 5 * Scale ELSE 0
  IN IF Len(items) = 0
       THEN 0
       ELSE Clamp(avgScore - consistencyPenalty, 25)

neutrals == {"black", "white", "gray", "grey", "beige", "tan", "brown", "navy", "cream"}

complementaryPairs ==
  <<<<"blue", "orange">>, <<"red", "green">>, <<"yellow", "purple">>,
    <<"pink", "green">>, <<"navy", "white">>, <<"black", "white">>>>

clashingPairs == <<<<"brown", "black">>, <<"navy", "black">>, <<"red", "pink">>>>

\* The colour score before the final Math.max(0, Math.min(20, .)), in points.
RawColorScore(candidate) ==
  LET items == NonNullItems(candidate)
      outfitColors == [i \in 1..Len(items) |-> toLowerCase(items[i].color)]
      n == Len(outfitColors)
      isNeutral(c) == \E neutral \in neutrals : includes(c, neutral)
      neutralCount == Cardinality({i \in 1..n : isNeutral(outfitColors[i])})
      has(word) == \E i \in 1..n : includes(outfitColors[i], word)
      present(pairs) ==
        Cardinality({p \in 1..Len(pairs) : has(pairs[p][1]) /\ has(pairs[p][2])})
      neutralBonus == IF neutralCount = n THEN 8
                      ELSE IF neutralCount >= n - 1 THEN 6
                      ELSE 0
      nonNeutralCount == n - neutralCount
      busyPenalty == IF nonNeutralCount > 2 THEN 3 ELSE 0
  IN 10 + neutralBonus + 4 * present(complementaryPairs)
        - 5 * present(clashingPairs) - busyPenalty

scoreColorCoordination(candidate) ==
  IF Len(NonNullItems(candidate)) = 0
    THEN 10 * Scale
    ELSE Clamp(RawColorScore(candidate) * Scale, 20)

\* A variant of the freshness score that gives 5 points from two recent items on.
scoreFreshnessTwoPlus(candidate, worn) ==
  LET outfitItemIds == SeqRange(getOutfitItemIds(candidate))
      itemsWornRecently == Cardinality(outfitItemIds \cap worn.lastSevenDays)
  IN IF outfitItemIds \cap worn.lastTwoDays # {} THEN 0
     ELSE IF itemsWornRecently = 0 THEN 25 * Scale
     ELSE IF itemsWornRecently = 1 THEN 15 * Scale
     ELSE 5 * Scale

scoreFreshness(candidate, worn) ==
  LET outfitItemIds == getOutfitItemIds(candidate)
      itemsWornRecently ==
        Cardinality({i \in 1..Len(outfitItemIds) : outfitItemIds[i] \in worn.lastSevenDays})
  IN IF \E i \in 1..Len(outfitItemIds) : outfitItemIds[i] \in worn.lastTwoDays
       THEN 0
       ELSE IF itemsWornRecently = 0 THEN 25 * Scale
       ELSE IF itemsWornRecently = 1 THEN 15 * Scale
       ELSE IF itemsWornRecently = 2 THEN 8 * Scale
       ELSE 5 * Scale

\* breakdown.total = the sum of the four sub-scores
TotalOf(weatherScore, formalityScore, colorScore, freshnessScore) ==
  weatherScore + formalityScore + colorScore + freshnessScore

scoreOutfit(candidate, w, preference, worn) ==
  LET weatherScore == scoreWeatherMatch(candidate, w)
      formalityScore == scoreFormalityMatch(candidate, preference)
      colorScore == scoreColorCoordination(candidate)
      freshnessScore == scoreFreshness(candidate, worn)
      total == TotalOf(weatherScore, formalityScore, colorScore, freshnessScore)
  IN [candidate |-> candidate,
      score |-> total,
      breakdown |-> [weatherScore |-> weatherScore,
                     formalityScore |-> formalityScore,
                     colorScore |-> colorScore,
                     freshnessScore |-> freshnessScore,
                     total |-> total]]

-----------------------------------------------------------------------------
(* Selection *)

\* factors.sort((a, b) => b.score - a.score) is stable and weather is listed first:
\* weather is factors[0] iff no other factor has a greater normalized score.
WeatherIsTopFactor(breakdown) ==
  /\ breakdown.weatherScore * 25 >= breakdown.formalityScore * 30
  /\ breakdown.weatherScore * 25 >= breakdown.freshnessScore * 30
  /\ breakdown.weatherScore * 20 >= breakdown.colorScore * 30

\* The clauses of the reason, in order (the text joins them with ", ").
generateReason(scored, w) ==
  LET breakdown == scored.breakdown
      weatherReasons ==
        IF WeatherIsTopFactor(breakdown) /\ breakdown.weatherScore >= 25 * Scale
          THEN <<IF w.temperature < 45 THEN "Perfect for cold weather"
                 ELSE IF w.temperature > 75 THEN "Ideal for warm weather"
                 ELSE "Great for today's temperature">>
               \o (IF w.condition = "rain" THEN <<"good for rainy conditions">> ELSE <<>>)
          ELSE <<>>
      formalityReasons ==
        IF breakdown.formalityScore >= 20 * Scale
          THEN <<"matches your formality preference">> ELSE <<>>
      freshnessReasons ==
        IF breakdown.freshnessScore = 25 * Scale
          THEN <<"fresh combination - not worn recently">>
          ELSE IF breakdown.freshnessScore >= 15 * Scale
            THEN <<"relatively fresh outfit">> ELSE <<>>
      colorReasons ==
        IF breakdown.colorScore >= 18 * Scale
          THEN <<"excellent color coordination">>
          ELSE IF breakdown.colorScore >= 15 * Scale
            THEN <<"well-coordinated colors">> ELSE <<>>
      reasons == weatherReasons \o formalityReasons \o freshnessReasons \o colorReasons
  IN IF Len(reasons) = 0 THEN <<"Good outfit for today">> ELSE reasons

candidateToOutfitWithItems(candidate) ==
  [top_id |-> candidate.top.id,
   bottom_id |-> candidate.bottom.id,
   shoes_id |-> candidate.shoes.id,
   outerwear_id |-> candidate.outerwear.id,
   accessory_id |-> candidate.accessory.id,
   top |-> candidate.top,
   bottom |-> candidate.bottom,
   shoes |-> candidate.shoes,
   outerwear |-> candidate.outerwear,
   accessory |-> candidate.accessory]

OutfitSuggestion(scoredOutfit, w) ==
  [outfit |-> candidateToOutfitWithItems(scoredOutfit.candidate),
   score |-> scoredOutfit.score,
   reason |-> generateReason(scoredOutfit, w)]

\* scoredOutfits.filter(outfit => outfit.score > 0)
ValidOutfits(scored) == SelectSeq(scored, LAMBDA outfit : outfit.score > 0)

\* Array.prototype.sort with (a, b) => b.score - a.score: a stable sort, descending.
\* Computed score by score from the highest: the outfits of one score keep their order.
RECURSIVE SortByScoreFrom(_, _)
SortByScoreFrom(outfits, scores) ==
  IF scores = {}
    THEN <<>>
    ELSE LET highest == CHOOSE x \in scores : \A y \in scores : y <= x
         IN SelectSeq(outfits, LAMBDA outfit : outfit.score = highest)
            \o SortByScoreFrom(outfits, scores \ {highest})

\* A variant that leaves the outfits in the order in which they were generated.
SortByScoreSkipped(outfits) == outfits

SortByScore(outfits) ==
  SortByScoreFrom(outfits, {outfits[i].score : i \in 1..Len(outfits)})

PoolSize == 20

\* A variant that keeps every valid outfit as a top candidate.
TopCandidatesAll(scored) == SortByScore(ValidOutfits(scored))

\* validOutfits.slice(0, Math.min(20, validOutfits.length)) after the sort
TopCandidates(scored) ==
  LET validOutfits == SortByScore(ValidOutfits(scored))
  IN SubSeq(validOutfits, 1, Min(PoolSize, Len(validOutfits)))

\* A variant of the conflict test that looks at the first id (the top) alone.
hasConflictTopOnly(candidateItemIds, usedItemIds) == candidateItemIds[1] \in usedItemIds

\* candidateItemIds.some(id => usedItemIds.has(id))
hasConflict(candidateItemIds, usedItemIds) ==
  \E i \in 1..Len(candidateItemIds) : candidateItemIds[i] \in usedItemIds

\* First loop: pick the highest scoring non-conflicting outfits.
RECURSIVE DiversityPassFrom(_, _, _, _, _)
DiversityPassFrom(pool, chosen, usedItemIds, count, w) ==
  IF pool = <<>> \/ Len(chosen) >= count
    THEN chosen
    ELSE LET scoredOutfit == Head(pool)
             candidateItemIds == getOutfitItemIds(scoredOutfit.candidate)
         IN IF ~hasConflict(candidateItemIds, usedItemIds)
              THEN DiversityPassFrom(Tail(pool),
                                     Append(chosen, OutfitSuggestion(scoredOutfit, w)),
                                     usedItemIds \cup SeqRange(candidateItemIds),
                                     count, w)
              ELSE DiversityPassFrom(Tail(pool), chosen, usedItemIds, count, w)

DiversityPass(pool, count, w) == DiversityPassFrom(pool, <<>>, {}, count, w)

\* suggestions.some(s => same top_id, bottom_id and shoes_id as the candidate)
alreadyAdded(chosen, scoredOutfit) ==
  \E i \in 1..Len(chosen) :
    /\ chosen[i].outfit.top_id = scoredOutfit.candidate.top.id
    /\ chosen[i].outfit.bottom_id = scoredOutfit.candidate.bottom.id
    /\ chosen[i].outfit.shoes_id = scoredOutfit.candidate.shoes.id

\* Second loop: fill with top scoring outfits, even with repeated items.
RECURSIVE BackfillFrom(_, _, _, _)
BackfillFrom(pool, chosen, count, w) ==
  IF pool = <<>> \/ Len(chosen) >= count
    THEN chosen
    ELSE IF ~alreadyAdded(chosen, Head(pool))
      THEN BackfillFrom(Tail(pool), Append(chosen, OutfitSuggestion(Head(pool), w)), count, w)
      ELSE BackfillFrom(Tail(pool), chosen, count, w)

\* The guard of the second loop.
BackfillRuns(pool, diverse, count) == Len(diverse) < count /\ Len(pool) > Len(diverse)

\* A variant that returns the selected suggestions sorted by descending score.
selectTopSuggestionsSorted(scored, count, w) ==
  IF Len(ValidOutfits(scored)) = 0
    THEN <<>>
    ELSE LET topCandidates == TopCandidates(scored)
             diverse == DiversityPass(topCandidates, count, w)
         IN IF BackfillRuns(topCandidates, diverse, count)
              THEN SortByScore(BackfillFrom(topCandidates, diverse, count, w))
              ELSE diverse

selectTopSuggestions(scored, count, w) ==
  IF Len(ValidOutfits(scored)) = 0
    THEN <<>>
    ELSE LET topCandidates == TopCandidates(scored)
             diverse == DiversityPass(topCandidates, count, w)
         IN IF BackfillRuns(topCandidates, diverse, count)
              THEN BackfillFrom(topCandidates, diverse, count, w)
              ELSE diverse

-----------------------------------------------------------------------------
(* Data fetching *)

HalfDaysPerDay == 2

\* new Date(worn_date): midnight (UTC) of the calendar date
InstantOfDate(day) == day * HalfDaysPerDay

\* toISOString().split('T')[0]: the calendar date (UTC) of an instant
DateOfInstant(t) == t \div HalfDaysPerDay

\* The rows of the query: outfit_logs joined with outfits, worn_date >= sevenDaysAgo's date.
RecentLogs(logs, t) ==
  LET sevenDaysAgo == t - 7 * HalfDaysPerDay
  IN {log \in logs : log.worn_date >= DateOfInstant(sevenDaysAgo)}

\* [top_id, ..., accessory_id].filter(id => id !== null && id !== undefined)
LogItemIds(log) ==
  {log.top_id, log.bottom_id, log.shoes_id, log.outerwear_id, log.accessory_id} \ {0}

\* A variant of fetchRecentlyWornItems whose second set holds every id of the window.
fetchRecentlyWornItemsWholeWindow(logs, t) ==
  LET twoDaysAgo == t - 2 * HalfDaysPerDay
      rows == RecentLogs(logs, t)
  IN [lastTwoDays |->
        UNION {LogItemIds(log) : log \in {l \in rows : InstantOfDate(l.worn_date) >= twoDaysAgo}},
      lastSevenDays |-> UNION {LogItemIds(log) : log \in rows}]

fetchRecentlyWornItems(logs, t) ==
  LET twoDaysAgo == t - 2 * HalfDaysPerDay
      rows == RecentLogs(logs, t)
  IN [lastTwoDays |->
        UNION {LogItemIds(log) : log \in {l \in rows : InstantOfDate(l.worn_date) >= twoDaysAgo}},
      lastSevenDays |->
        UNION {LogItemIds(log) : log \in {l \in rows : ~(InstantOfDate(l.worn_date) >= twoDaysAgo)}}]

Reverse(s) == [i \in 1..Len(s) |-> s[Len(s) + 1 - i]]

\* SELECT ... FROM clothing_items ORDER BY created_at DESC: the table is kept in
\* insertion order, the query returns the newest row first.
fetchWardrobeItems(store) == Reverse(store)

-----------------------------------------------------------------------------
(* Main entry point: generateOutfitSuggestions.  The two reads are awaited;   *)
(* everything after them runs synchronously to the return.                    *)

SuggestionCount == 3

\* The value generateOutfitSuggestions resolves to, as a function of what it reads.
generateOutfitSuggestions(store, logs, t, w, formality) ==
  LET items == fetchWardrobeItems(store)
      worn == fetchRecentlyWornItems(logs, t)
      filtered == filterItemsByContext(items, w, formality)
      cands == generateOutfitCandidates(filtered, w)
      scored == [i \in 1..Len(cands) |-> scoreOutfit(cands[i], w, formality, worn)]
  IN IF Len(items) = 0
       THEN <<>>
       ELSE selectTopSuggestions(scored, SuggestionCount, w)

NoWorn == [lastTwoDays |-> {}, lastSevenDays |-> {}]

\* A variant of the reads that deletes the logs older than the 7-day window.
StoresPruned ==
  /\ clothing_items' = clothing_items
  /\ outfit_logs' = {log \in outfit_logs : log.worn_date >= 0 - 7}

\* Every statement the pipeline sends to the database is a SELECT: the two tables
\* are left as they are.
StoresUntouched == UNCHANGED <<clothing_items, outfit_logs>>

\* Step 1: fetch the wardrobe; an empty wardrobe returns [] at once.
FetchWardrobeItems ==
  /\ pc = "start"
  /\ allItems' = fetchWardrobeItems(clothing_items)
  /\ pc' = IF Len(fetchWardrobeItems(clothing_items)) = 0 THEN "done" ELSE "items_fetched"
  /\ StoresUntouched
  /\ UNCHANGED weatherVars
  /\ UNCHANGED <<now, weather, formalityPreference, recentlyWorn, filteredItems,
                 candidates, scoredOutfits, suggestions, error>>

\* Step 1 when the query throws: nothing catches it, the returned promise rejects.
FetchWardrobeItemsFails ==
  /\ pc = "start"
  /\ pc' = "failed"
  /\ error' = "item_store"
  /\ StoresUntouched
  /\ UNCHANGED weatherVars
  /\ UNCHANGED <<now, weather, formalityPreference, allItems, recentlyWorn,
                 filteredItems, candidates, scoredOutfits, suggestions>>

\* Step 2: fetch the recently worn item ids.
FetchRecentlyWornItems ==
  /\ pc = "items_fetched"
  /\ recentlyWorn' = fetchRecentlyWornItems(outfit_logs, now)
  /\ pc' = "worn_fetched"
  /\ StoresUntouched
  /\ UNCHANGED weatherVars
  /\ UNCHANGED <<now, weather, formalityPreference, allItems, filteredItems,
                 candidates, scoredOutfits, suggestions, error>>

\* Step 2 when the query throws: the returned promise rejects.
FetchRecentlyWornItemsFails ==
  /\ pc = "items_fetched"
  /\ pc' = "failed"
  /\ error' = "history_store"
  /\ StoresUntouched
  /\ UNCHANGED weatherVars
  /\ UNCHANGED <<now, weather, formalityPreference, allItems, recentlyWorn,
                 filteredItems, candidates, scoredOutfits, suggestions>>

\* Steps 3 to 6: filter, generate, score, select, return.
ComputeSuggestions ==
  /\ pc = "worn_fetched"
  /\ filteredItems' = filterItemsByContext(allItems, weather, formalityPreference)
  /\ candidates' = generateOutfitCandidates(filteredItems', weather)
  /\ scoredOutfits' = [i \in 1..Len(candidates') |->
                         scoreOutfit(candidates'[i], weather, formalityPreference, recentlyWorn)]
  /\ suggestions' = selectTopSuggestions(scoredOutfits', SuggestionCount, weather)
  /\ pc' = "done"
  /\ StoresUntouched
  /\ UNCHANGED weatherVars
  /\ UNCHANGED <<now, weather, formalityPreference, allItems, recentlyWorn, error>>

Next ==
  \/ FetchWardrobeItems
  \/ FetchWardrobeItemsFails
  \/ FetchRecentlyWornItems
  \/ FetchRecentlyWornItemsFails
  \/ ComputeSuggestions

-----------------------------------------------------------------------------
(* Weather service (lib/services/weather.ts): fetchWeather with its in-memory  *)
(* cache.  Coordinates are in thousandths of a degree, provider temperatures  *)
(* in tenths of a degree, time in milliseconds.                               *)

\* Math.round on a value given in tenths: the nearest integer, halves upwards.
MathRound(tenths) == (tenths + 5) \div 10

\* Number.prototype.toFixed(2) on a coordinate given in thousandths: hundredths,
\* rounded to the nearest, halves away from zero.
toFixed2(thousandths) ==
  IF thousandths >= 0 THEN (thousandths + 5) \div 10 ELSE 0 - ((5 - thousandths) \div 10)

getCacheKey(latitude, longitude) == <<toFixed2(latitude), toFixed2(longitude)>>

CACHE_TTL == 60 * 60 * 1000

mapWeatherCode(code) ==
  IF code = 0 THEN [condition |-> "clear", description |-> "Clear sky"]
  ELSE IF code = 1 THEN [condition |-> "clear", description |-> "Mainly clear"]
  ELSE IF code = 2 THEN [condition |-> "cloudy", description |-> "Partly cloudy"]
  ELSE IF code = 3 THEN [condition |-> "cloudy", description |-> "Overcast"]
  ELSE IF code >= 45 /\ code <= 48 THEN [condition |-> "cloudy", description |-> "Foggy"]
  ELSE IF code >= 51 /\ code <= 67 THEN [condition |-> "rain", description |-> "Rainy"]
  ELSE IF code >= 71 /\ code <= 77 THEN [condition |-> "snow", description |-> "Snowy"]
  ELSE IF code >= 80 /\ code <= 82 THEN [condition |-> "rain", description |-> "Rain showers"]
  ELSE IF code >= 85 /\ code <= 86 THEN [condition |-> "snow", description |-> "Snow showers"]
  ELSE IF code >= 95 /\ code <= 99 THEN [condition |-> "rain", description |-> "Thunderstorm"]
  ELSE [condition |-> "cloudy", description |-> "Unknown"]

\* cache.get(key) when the key is absent
NoEntry == [expiresAt |-> 0 - 1, data |-> "undefined"]

\* A variant of the freshness test that still serves an entry at its expiry instant.
IsFreshAtExpiry(entry, t) == entry # NoEntry /\ entry.expiresAt >= t

\* if (cached && cached.expiresAt > Date.now())
IsFresh(entry, t) == entry # NoEntry /\ entry.expiresAt > t

\* The null getCachedWeather returns: a record, so that it compares with WeatherData.
NullWeather == [condition |-> "null"]

\* getCachedWeather: the cached data if present and not expired, null otherwise.
getCachedWeather(latitude, longitude) ==
  LET cached == cache[getCacheKey(latitude, longitude)]
  IN IF IsFresh(cached, clock) THEN cached.data ELSE NullWeather

\* The locations asked for: two that share a cache key and one apart.
Locations == {<<40712, 0 - 74006>>, <<40714, 0 - 74006>>, <<51507, 0 - 128>>}

CacheKeys == {getCacheKey(l[1], l[2]) : l \in Locations}

TemperatureUnit == {"fahrenheit", "celsius"}

Callers == 1..MaxCallers

\* The bodies the provider answers with: the temperature in the unit asked for
\* (19.6 C is 67.3 F) and the weather code of the place (clear sky north of 45
\* degrees, slight rain south of it).
ProviderResponses(temperatureUnit, latitude) ==
  {[temperature_2m |-> IF temperatureUnit = "fahrenheit" THEN 673 ELSE 196,
    apparent_temperature |-> IF temperatureUnit = "fahrenheit" THEN 655 ELSE 186,
    relative_humidity_2m |-> 40,
    weather_code |-> IF latitude > 45000 THEN 0 ELSE 61]}

\* const weatherData: WeatherData = {...}
WeatherDataOf(response, t) ==
  [temperature |-> MathRound(response.temperature_2m),
   condition |-> mapWeatherCode(response.weather_code).condition,
   description |-> mapWeatherCode(response.weather_code).description,
   feels_like |-> MathRound(response.apparent_temperature),
   humidity |-> response.relative_humidity_2m,
   timestamp |-> t]

IdleCall == [pc |-> "idle", latitude |-> 0, longitude |-> 0, temperatureUnit |-> "none",
             result |-> "none"]

\* fetchWeather up to its first await: a fresh cache entry is returned at once,
\* otherwise the request is sent to the provider.  The calls are numbered in the
\* order in which they are made.
FetchWeatherStart(c, latitude, longitude, temperatureUnit) ==
  /\ calls[c].pc = "idle"
  /\ \A earlier \in 1..(c - 1) : calls[earlier].pc # "idle"
  /\ LET cached == cache[getCacheKey(latitude, longitude)]
         call == [pc |-> "awaiting", latitude |-> latitude, longitude |-> longitude,
                  temperatureUnit |-> temperatureUnit, result |-> "none"]
     IN calls' = [calls EXCEPT ![c] =
                    IF IsFresh(cached, clock)
                      THEN [call EXCEPT !.pc = "returned", !.result = cached.data]
                      ELSE call]
  /\ UNCHANGED <<cache, clock>>
  /\ UNCHANGED pipelineVars

\* The provider answered 200 with a body: the data is built, cached and returned.
FetchWeatherResponse(c) ==
  /\ calls[c].pc = "awaiting"
  /\ \E response \in ProviderResponses(calls[c].temperatureUnit, calls[c].latitude) :
       LET weatherData == WeatherDataOf(response, clock)
           cacheKey == getCacheKey(calls[c].latitude, calls[c].longitude)
       IN /\ cache' = [cache EXCEPT ![cacheKey] =
                         [data |-> weatherData, expiresAt |-> clock + CACHE_TTL]]
          /\ calls' = [calls EXCEPT ![c].pc = "returned", ![c].result = weatherData]
  /\ UNCHANGED clock
  /\ UNCHANGED pipelineVars

\* A variant of the catch block that answers with the key's cache entry, expired
\* or not, when there is one.
FetchWeatherFailureServesCache(c) ==
  /\ calls[c].pc = "awaiting"
  /\ LET cached == cache[getCacheKey(calls[c].latitude, calls[c].longitude)]
     IN calls' = [calls EXCEPT ![c] =
                    IF cached # NoEntry
                      THEN [@ EXCEPT !.pc = "returned", !.result = cached.data]
                      ELSE [@ EXCEPT !.pc = "thrown", !.result = "Failed to fetch weather"]]
  /\ UNCHANGED <<cache, clock>>
  /\ UNCHANGED pipelineVars

\* The request failed (network error, 10 second timeout, status not ok, bad body):
\* the catch block deletes the key's entry and throws.
FetchWeatherFailure(c) ==
  /\ calls[c].pc = "awaiting"
  /\ cache' = [cache EXCEPT ![getCacheKey(calls[c].latitude, calls[c].longitude)] = NoEntry]
  /\ calls' = [calls EXCEPT ![c].pc = "thrown", ![c].result = "Failed to fetch weather"]
  /\ UNCHANGED clock
  /\ UNCHANGED pipelineVars

\* clearWeatherCache
ClearWeatherCache ==
  /\ \E k \in CacheKeys : cache[k] # NoEntry
  /\ cache' = [k \in CacheKeys |-> NoEntry]
  /\ UNCHANGED <<clock, calls>>
  /\ UNCHANGED pipelineVars

\* Time passes: half an hour.
TickMs == 30 * 60 * 1000

Tick ==
  /\ clock < MaxTicks * TickMs
  /\ clock' = clock + TickMs
  /\ UNCHANGED <<cache, calls>>
  /\ UNCHANGED pipelineVars

WeatherNext ==
  \/ \E c \in Callers, l \in Locations, u \in TemperatureUnit :
       FetchWeatherStart(c, l[1], l[2], u)
  \/ \E c \in Callers : FetchWeatherResponse(c)
  \/ \E c \in Callers : FetchWeatherFailure(c)
  \/ ClearWeatherCache
  \/ Tick

\* The module as loaded: an empty cache, no call made.
WeatherInit ==
  /\ cache = [k \in CacheKeys |-> NoEntry]
  /\ clock = 0
  /\ calls = [c \in Callers |-> IdleCall]

-----------------------------------------------------------------------------
(* Initial states: the stores and the request the pipeline runs on *)

\* A wardrobe whose items are all alike: casual, black, no tags, light (warmth 2).
PlainAttr(type, k) ==
  [color |-> "black", warmth |-> 2, formality |-> "casual", tags |-> {}]

\* The same with warm items (warmth 4).
WarmAttr(type, k) ==
  [color |-> "black", warmth |-> 4, formality |-> "casual", tags |-> {}]

\* A wardrobe of differing items; the k-th item of a type cycles through three kinds.
MixedAttr(type, k) ==
  LET j == ((k - 1) % 3) + 1
  IN CASE type = "top" ->
            <<[color |-> "white", warmth |-> 3, formality |-> "casual", tags |-> {}],
              [color |-> "Navy Blue", warmth |-> 4, formality |-> "business_casual", tags |-> {"Winter"}],
              [color |-> "red", warmth |-> 2, formality |-> "formal", tags |-> {"Summer"}]>>[j]
       [] type = "bottom" ->
            <<[color |-> "Black", warmth |-> 3, formality |-> "casual", tags |-> {}],
              [color |-> "brown", warmth |-> 4, formality |-> "casual", tags |-> {"work"}],
              [color |-> "pink", warmth |-> 2, formality |-> "business_casual", tags |-> {}]>>[j]
       [] type = "shoes" ->
            <<[color |-> "white", warmth |-> 3, formality |-> "business_casual", tags |-> {}],
              [color |-> "black", warmth |-> 5, formality |-> "formal", tags |-> {"Waterproof"}],
              [color |-> "brown", warmth |-> 4, formality |-> "casual", tags |-> {}]>>[j]
       [] type = "outerwear" ->
            <<[color |-> "navy blue", warmth |-> 5, formality |-> "casual", tags |-> {"Waterproof"}],
              [color |-> "dark green", warmth |-> 3, formality |-> "business_casual", tags |-> {"all-season"}],
              [color |-> "black", warmth |-> 4, formality |-> "formal", tags |-> {"rain"}]>>[j]
       [] type = "accessory" ->
            <<[color |-> "red", warmth |-> 3, formality |-> "casual", tags |-> {"Summer"}],
              [color |-> "white", warmth |-> 5, formality |-> "formal", tags |-> {"winter"}],
              [color |-> "pink", warmth |-> 1, formality |-> "casual", tags |-> {"summer"}]>>[j]

\* The attributes of the k-th item of a type in a wardrobe of a kind.
AttrOf(kind, type, k) ==
  CASE kind = "plain" -> PlainAttr(type, k)
    [] kind = "warm" -> WarmAttr(type, k)
    [] kind = "mixed" -> MixedAttr(type, k)

TypeOrder == <<"top", "bottom", "shoes", "outerwear", "accessory">>

\* The clothing_items table after inserting shape[i] items of TypeOrder[i], type by
\* type; ids are assigned in insertion order.
Wardrobe(shape, kind) ==
  LET before(i) == SumSeq(SubSeq(shape, 1, i - 1))
  IN ConcatAll([i \in 1..5 |->
       [k \in 1..shape[i] |->
          LET a == AttrOf(kind, TypeOrder[i], k)
          IN ClothingItem(before(i) + k, TypeOrder[i], a.color, a.warmth, a.formality, a.tags)]])

\* The id of the oldest stored item of a type, 0 (NULL) when there is none.
FirstIdOf(store, type) ==
  IF \E i \in 1..Len(store) : store[i].type = type
    THEN store[CHOOSE i \in 1..Len(store) :
                 /\ store[i].type = type
                 /\ \A j \in 1..(i - 1) : store[j].type # type].id
    ELSE 0

\* A row of outfit_logs joined with its outfit: the oldest top, bottom and shoes,
\* worn daysAgo days before the day of the request.
FirstOutfitLog(store, daysAgo) ==
  [worn_date |-> 0 - daysAgo,
   top_id |-> FirstIdOf(store, "top"),
   bottom_id |-> FirstIdOf(store, "bottom"),
   shoes_id |-> FirstIdOf(store, "shoes"),
   outerwear_id |-> 0,
   accessory_id |-> 0]

Weather(temperature, condition) == [temperature |-> temperature, condition |-> condition]

PlainShapes ==
  {<<a, b, c, o, 0>> : a \in 0..MaxCore, b \in 0..MaxCore, c \in 0..MaxCore, o \in {0, MaxOuter}}

MixedShapes ==
  {<<a, b, c, o, x>> : a \in 1..MaxMixedCore, b \in 1..MaxMixedCore, c \in 1..MaxMixedCore,
                       o \in 0..MaxOuter, x \in 0..MaxAcc}

PlainWeathers == {Weather(68, "clear"), Weather(30, "clear")}

MixedWeathers ==
  {Weather(30, "snow"), Weather(47, "clear"), Weather(47, "rain"),
   Weather(68, "clear"), Weather(68, "rain"), Weather(80, "cloudy")}

Histories(store) ==
  {{}, {FirstOutfitLog(store, 1)}, {FirstOutfitLog(store, 5)}}

\* The state at a call made at instant t.
InitAt(store, w, formality, logs, t) ==
  /\ clothing_items = store
  /\ outfit_logs = logs
  /\ now = t
  /\ weather = w
  /\ formalityPreference = formality
  /\ pc = "start"
  /\ allItems = <<>>
  /\ recentlyWorn = NoWorn
  /\ filteredItems = <<>>
  /\ candidates = <<>>
  /\ scoredOutfits = <<>>
  /\ suggestions = <<>>
  /\ error = "none"
  /\ WeatherInit

\* The state at a call made during the request day, after midnight (UTC).
InitWith(store, w, formality, logs) == InitAt(store, w, formality, logs, 1)

InitPlain ==
  \E shape \in PlainShapes, w \in PlainWeathers :
    \E logs \in Histories(Wardrobe(shape, "plain")) :
      \/ InitWith(Wardrobe(shape, "plain"), w, "casual", logs)
      \/ InitWith(Wardrobe(shape, "warm"), w, "casual", logs)

InitMixed ==
  \E shape \in MixedShapes, w \in MixedWeathers, formality \in FormalityLevel :
    \E logs \in Histories(Wardrobe(shape, "mixed")) :
      InitWith(Wardrobe(shape, "mixed"), w, formality, logs)

\* The id of the newest stored item of a type, 0 (NULL) when there is none.
LastIdOf(store, type) ==
  IF \E i \in 1..Len(store) : store[i].type = type
    THEN store[CHOOSE i \in 1..Len(store) :
                 /\ store[i].type = type
                 /\ \A j \in (i + 1)..Len(store) : store[j].type # type].id
    ELSE 0

\* A row of outfit_logs joined with its outfit: the newest top, bottom and shoes,
\* worn daysAgo days before the day of the request.
LastOutfitLog(store, daysAgo) ==
  [worn_date |-> 0 - daysAgo,
   top_id |-> LastIdOf(store, "top"),
   bottom_id |-> LastIdOf(store, "bottom"),
   shoes_id |-> LastIdOf(store, "shoes"),
   outerwear_id |-> 0,
   accessory_id |-> 0]

\* Days before the request day on which an outfit was logged: around the two-day
\* and the seven-day thresholds.
WornDaysAgo == {0, 1, 2, 3, 5, 7, 8}

HistoryShapes == {<<1, 1, 1, 0, 0>>, <<2, 2, 2, 0, 0>>}

\* Wear histories of at most MaxLogs logs of the oldest or the newest outfit.
LoggedHistories(store) ==
  LET logs == {FirstOutfitLog(store, d) : d \in WornDaysAgo}
                \cup {LastOutfitLog(store, d) : d \in WornDaysAgo}
  IN {h \in SUBSET logs : Cardinality(h) <= MaxLogs}

\* Requests made at midnight (UTC) or later in the day, on a logged history.
InitHistory ==
  \E shape \in HistoryShapes, t \in {0, 1} :
    \E logs \in LoggedHistories(Wardrobe(shape, "plain")) :
      InitAt(Wardrobe(shape, "plain"), Weather(68, "clear"), "casual", logs, t)

Init == InitPlain \/ InitMixed \/ InitHistory

Spec == Init /\ [][Next]_vars

\* A wardrobe of light items in which the row at position m has no warmth rating:
\* the column's CHECK admits NULL, which the model writes 0.
MalformedWardrobe(shape, m) ==
  LET store == Wardrobe(shape, "plain")
  IN [i \in 1..Len(store) |->
        IF i = m THEN [store[i] EXCEPT !.warmth_rating = 0] ELSE store[i]]

MalformedShapes ==
  {<<a, b, c, o, 0>> : a \in 1..2, b \in 1..2, c \in 1..2, o \in 0..1}

MalformedWeathers == {Weather(30, "snow"), Weather(68, "clear"), Weather(100, "clear")}

\* Requests on a wardrobe holding one row without warmth rating.
InitMalformed ==
  \E shape \in MalformedShapes, w \in MalformedWeathers :
    \E m \in 1..(shape[1] + shape[2] + shape[3] + shape[4]) :
      InitAt(MalformedWardrobe(shape, m), w, "casual", {}, 1)

MalformedSpec == InitMalformed /\ [][Next]_vars

\* The weather service running beside one request of the pipeline (one top, one
\* bottom, one shoes, no history).
ServiceInit ==
  InitAt(Wardrobe(<<1, 1, 1, 0, 0>>, "plain"), Weather(68, "clear"), "casual", {}, 1)

ServiceNext == Next \/ WeatherNext

ServiceSpec == ServiceInit /\ [][ServiceNext]_vars

\* The weather service alone, the pipeline not being called.
WeatherSpec == ServiceInit /\ [][WeatherNext]_vars

\* A wardrobe of one top, bottom, shoes and outerwear in which the top has one
\* warmth rating and the other items another; the outerwear is tagged Waterproof.
BandWardrobe(topWarmth, otherWarmth) ==
  LET store == Wardrobe(<<1, 1, 1, 1, 0>>, "plain")
  IN [i \in 1..Len(store) |->
        [store[i] EXCEPT !.warmth_rating =
                           IF store[i].type = "top" THEN topWarmth ELSE otherWarmth,
                         !.tags =
                           IF store[i].type = "outerwear" THEN {"Waterproof"} ELSE {}]]

\* The temperatures at and just outside the ends of the five widened bands.
BandEdges ==
  UNION {{tempRanges[r].min - tolerance - 1, tempRanges[r].min - tolerance,
          tempRanges[r].max + tolerance, tempRanges[r].max + tolerance + 1} :
           r \in DOMAIN tempRanges}

\* The temperatures at and just below the steps of the weather score: those of the
\* ideal warmth and that of the outerwear bonus.
ScoreSteps == {44, 45, 49, 50, 59, 60, 74, 75}

\* Requests made at the ends of the bands and at the steps of the weather score,
\* under every weather condition.
InitBands ==
  \E topWarmth \in DOMAIN tempRanges, otherWarmth \in DOMAIN tempRanges :
    \E temperature \in BandEdges \cup ScoreSteps, condition \in WeatherCondition :
      InitAt(BandWardrobe(topWarmth, otherWarmth), Weather(temperature, condition),
             "casual", {}, 1)

BandSpec == InitBands /\ [][Next]_vars

-----------------------------------------------------------------------------
(* Properties *)

Done == pc = "done"

\* The item ids of a returned suggestion (0 stands for null).
SuggestionIds(s) ==
  {s.outfit.top_id, s.outfit.bottom_id, s.outfit.shoes_id,
   s.outfit.outerwear_id, s.outfit.accessory_id} \ {0}

\* The non-null items of a returned suggestion.
SuggestionItems(s) ==
  {s.outfit.top, s.outfit.bottom, s.outfit.shoes, s.outfit.outerwear, s.outfit.accessory}
    \ {Null}

CandidateIds(candidate) == SeqRange(getOutfitItemIds(candidate))

PairwiseDisjoint(list) ==
  \A i, j \in 1..Len(list) :
    i # j => SuggestionIds(list[i]) \cap SuggestionIds(list[j]) = {}

CountOfType(items, type) == Cardinality({i \in 1..Len(items) : items[i].type = type})

\* C1: no returned suggestion contains an item id of the excluded set (worn within
\* the last two days); a wardrobe whose only outfit holds such an item gets nothing.
C1_NoExcludedItemSuggested ==
  Done => \A i \in 1..Len(suggestions) :
            SuggestionIds(suggestions[i]) \cap recentlyWorn.lastTwoDays = {}

\* C2: a scored candidate has total score 0 exactly when it contains an item id of
\* the excluded set, so discarding score 0 removes exactly those candidates.
C2_ExcludedCandidateScoresZero ==
  \A i \in 1..Len(scoredOutfits) :
    (CandidateIds(scoredOutfits[i].candidate) \cap recentlyWorn.lastTwoDays # {})
      <=> (scoredOutfits[i].score = 0)

\* C3: with at least K tops, K bottoms and K shoes surviving the filter and no wear
\* history, exactly K suggestions are returned and their item sets are pairwise
\* disjoint.
C3_EnoughItemsYieldDisjointSuggestions ==
  (/\ Done
   /\ outfit_logs = {}
   /\ CountOfType(filteredItems, "top") >= SuggestionCount
   /\ CountOfType(filteredItems, "bottom") >= SuggestionCount
   /\ CountOfType(filteredItems, "shoes") >= SuggestionCount)
  => /\ Len(suggestions) = SuggestionCount
     /\ PairwiseDisjoint(suggestions)

\* C4: for every requested count K, the suggestions accepted by the diversity pass
\* are pairwise disjoint in item ids, and two returned suggestions share an item id
\* only if the diversity pass accepted fewer than K.
C4_DiversityPassDisjoint ==
  Done =>
    \A count \in 1..MaxCount :
      LET diverse == DiversityPass(TopCandidates(scoredOutfits), count, weather)
          returned == selectTopSuggestions(scoredOutfits, count, weather)
      IN /\ PairwiseDisjoint(diverse)
         /\ ~PairwiseDisjoint(returned) => Len(diverse) < count
         /\ count = SuggestionCount => returned = suggestions

\* C4 witness: the diversity pass accepted two outfits, fewer than requested, and the
\* backfill added a third that shares items with them.
C4_Witness ==
  /\ Done
  /\ Len(DiversityPass(TopCandidates(scoredOutfits), SuggestionCount, weather)) = 2
  /\ Len(suggestions) = SuggestionCount
  /\ ~PairwiseDisjoint(suggestions)

\* C5: the number of suggestions returned is min(K, size of the top-20 pool): the
\* backfill accepts every pool candidate that differs from the accepted ones.
C5_BackfillFillsUpToPool ==
  Done => Len(suggestions) = Min(SuggestionCount, Len(TopCandidates(scoredOutfits)))

\* C6: every generated candidate has a top, a bottom and shoes, and every non-null
\* slot holds an item of the slot's category.
C6_CandidatesWellFormed ==
  \A i \in 1..Len(candidates) :
    /\ candidates[i].top # Null
    /\ candidates[i].bottom # Null
    /\ candidates[i].shoes # Null
    /\ \A slot \in ClothingType :
         candidates[i][slot] # Null => candidates[i][slot].type = slot

\* C6 witness: a candidate with all five slots filled was generated.
C6_Witness ==
  /\ Done
  /\ \E i \in 1..Len(candidates) :
       candidates[i].outerwear # Null /\ candidates[i].accessory # Null

\* The items of a type that survived the filter.
FilteredOfType(type) == {filteredItems[i] : i \in {j \in 1..Len(filteredItems) : filteredItems[j].type = type}}

\* C7: below 50 degrees with outerwear in stock every candidate and every suggestion
\* has outerwear; from 50 degrees on every top/bottom/shoes triple is generated both
\* without outerwear and with each outerwear item.
C7_OuterwearRequiredWhenCold ==
  Done =>
    /\ (weather.temperature < 50 /\ FilteredOfType("outerwear") # {})
         => /\ \A i \in 1..Len(candidates) : candidates[i].outerwear # Null
            /\ \A i \in 1..Len(suggestions) : suggestions[i].outfit.outerwear # Null
    /\ weather.temperature >= 50
         => \A t \in FilteredOfType("top"), b \in FilteredOfType("bottom"),
               s \in FilteredOfType("shoes") :
              /\ OutfitCandidate(t, b, s, Null, Null) \in SeqRange(candidates)
              /\ \A o \in FilteredOfType("outerwear") :
                   OutfitCandidate(t, b, s, o, Null) \in SeqRange(candidates)

\* C7 witness: a cold request with outerwear in stock produced suggestions.
C7_Witness ==
  /\ Done
  /\ weather.temperature < 50
  /\ FilteredOfType("outerwear") # {}
  /\ suggestions # <<>>

\* C8: every sub-score lies in its interval, the total is the sum of the four
\* sub-scores and is the score, and every score is within 0..100.
C8_ScoresWithinRanges ==
  /\ \A i \in 1..Len(scoredOutfits) :
       LET b == scoredOutfits[i].breakdown
       IN /\ b.weatherScore >= 0 /\ b.weatherScore <= 30 * Scale
          /\ b.formalityScore >= 0 /\ b.formalityScore <= 25 * Scale
          /\ b.colorScore >= 0 /\ b.colorScore <= 20 * Scale
          /\ b.freshnessScore >= 0 /\ b.freshnessScore <= 25 * Scale
          /\ b.total = b.weatherScore + b.formalityScore + b.colorScore + b.freshnessScore
          /\ scoredOutfits[i].score = b.total
          /\ b.total >= 0 /\ b.total <= 100 * Scale
  /\ \A i \in 1..Len(suggestions) :
       suggestions[i].score >= 0 /\ suggestions[i].score <= 100 * Scale

\* C8 witness: a candidate whose weather score was cut to 30 and one whose colour
\* score was cut to 20 were scored.
C8_Witness ==
  /\ Done
  /\ \E i \in 1..Len(scoredOutfits) :
       RawWeatherScore(scoredOutfits[i].candidate, weather) > 30 * Scale
  /\ \E i \in 1..Len(scoredOutfits) :
       RawColorScore(scoredOutfits[i].candidate) > 20

\* The three predicates of the context filter, stated on an item.
WithinOneLevel(item) ==
  formalityLevels[item.formality_level] - formalityLevels[formalityPreference] \in {-1, 0, 1}

WithinWidenedBand(item) ==
  /\ weather.temperature >= tempRanges[item.warmth_rating].min - 10
  /\ weather.temperature <= tempRanges[item.warmth_rating].max + 10

SeasonTags == {"summer", "spring", "fall", "winter", "all-season", "year-round"}

SeasonCompatible(item) ==
  LET tags == {toLowerCase(tag) : tag \in item.tags}
  IN tags \cap SeasonTags = {}
       \/ tags \cap seasonCompatibility[SeasonOf(weather.temperature)] # {}

\* C9: every item of every returned suggestion, and every item handed to candidate
\* generation, is within one formality level of the target, within its warmth band
\* widened by 10 degrees, and season-compatible or without season tag.
C9_SuggestedItemsPassFilter ==
  Done =>
    /\ \A i \in 1..Len(suggestions) :
         \A item \in SuggestionItems(suggestions[i]) :
           WithinOneLevel(item) /\ WithinWidenedBand(item) /\ SeasonCompatible(item)
    /\ \A i \in 1..Len(filteredItems) :
         LET item == filteredItems[i]
         IN WithinOneLevel(item) /\ WithinWidenedBand(item) /\ SeasonCompatible(item)
    /\ \A i \in 1..Len(candidates) :
         \A j \in 1..Len(NonNullItems(candidates[i])) :
           NonNullItems(candidates[i])[j] \in SeqRange(filteredItems)

\* C9 witness: the filter dropped an item and suggestions were still returned.
C9_Witness ==
  /\ Done
  /\ Len(filteredItems) < Len(allItems)
  /\ suggestions # <<>>

\* Scenarios A and B: one top, one bottom, one shoes, all casual, of one warmth, no
\* season tags, no outerwear, no wear history, target casual.
ScenarioWardrobe(warmth) ==
  /\ Len(clothing_items) = 3
  /\ \A type \in {"top", "bottom", "shoes"} : CountOfType(clothing_items, type) = 1
  /\ \A i \in 1..3 :
       /\ clothing_items[i].formality_level = "casual"
       /\ clothing_items[i].warmth_rating = warmth
       /\ clothing_items[i].tags = {}
  /\ outfit_logs = {}
  /\ formalityPreference = "casual"

\* The weather score of the first suggestion returned at a given temperature.
WeatherScoreAt(temperature) ==
  LET w == Weather(temperature, weather.condition)
      s == generateOutfitSuggestions(clothing_items, outfit_logs, now, w, "casual")
  IN scoreWeatherMatch(
       OutfitCandidate(s[1].outfit.top, s[1].outfit.bottom, s[1].outfit.shoes,
                       s[1].outfit.outerwear, s[1].outfit.accessory), w)

\* C10 as stated: Scenario B (warmth 2, 30 degrees) returns exactly 1 suggestion with
\* outerwear null, whose weather score is lower than the one obtained at 68 degrees.
C10_ScenarioBOneSuggestion ==
  (Done /\ ScenarioWardrobe(2) /\ weather.temperature = 30)
    => /\ Len(suggestions) = 1
       /\ suggestions[1].outfit.outerwear = Null
       /\ WeatherScoreAt(30) < WeatherScoreAt(68)

\* C10 amended: Scenario B returns no suggestion at 30 degrees, every warmth-2 item
\* failing the weather filter; the same wardrobe at 68 degrees returns exactly 1
\* suggestion with outerwear null, and so does a wardrobe of warmth-4 items at 30
\* degrees (the outerwear requirement applies only if outerwear is in stock).
C10_ScenarioBNoSuggestion ==
  /\ (Done /\ ScenarioWardrobe(2) /\ weather.temperature = 30)
       => filteredItems = <<>> /\ candidates = <<>> /\ suggestions = <<>>
  /\ (Done /\ ScenarioWardrobe(2) /\ weather.temperature = 68)
       => Len(suggestions) = 1 /\ suggestions[1].outfit.outerwear = Null
  /\ (Done /\ ScenarioWardrobe(4) /\ weather.temperature = 30)
       => Len(suggestions) = 1 /\ suggestions[1].outfit.outerwear = Null

\* C10 witness: Scenario B has run to its end.
C10_Witness ==
  Done /\ ScenarioWardrobe(2) /\ weather.temperature = 30 /\ Len(allItems) = 3

\* The instants of the request day at which a run can be made: midnight (UTC) and later.
RequestInstants == {0, 1}

\* What two suggestion lists are compared by: item ids, score and reason, in order.
SuggestionView(list) ==
  [i \in 1..Len(list) |->
     [ids |-> <<list[i].outfit.top_id, list[i].outfit.bottom_id, list[i].outfit.shoes_id,
                list[i].outfit.outerwear_id, list[i].outfit.accessory_id>>,
      score |-> list[i].score,
      reason |-> list[i].reason]]

\* The set of scored candidates of a run made at instant t on the current stores.
ScoredAt(t) ==
  LET worn == fetchRecentlyWornItems(outfit_logs, t)
      cands == generateOutfitCandidates(
                 filterItemsByContext(fetchWardrobeItems(clothing_items), weather,
                                      formalityPreference), weather)
  IN {scoreOutfit(cands[i], weather, formalityPreference, worn) : i \in 1..Len(cands)}

\* C11: a second run on the same item list, wear history, weather and target
\* formality, made at any instant of the same day, yields the same set of scored
\* candidates and the same ordered suggestions (ids, scores, reasons).
C11_RunsAgree ==
  Done =>
    \A t \in RequestInstants :
      /\ ScoredAt(t) = SeqRange(scoredOutfits)
      /\ SuggestionView(generateOutfitSuggestions(clothing_items, outfit_logs, t, weather,
                                                  formalityPreference))
           = SuggestionView(suggestions)

\* An item that passes the three predicates of the context filter for the request.
Eligible(item) == WithinOneLevel(item) /\ WithinWidenedBand(item) /\ SeasonCompatible(item)

\* The wardrobe is empty, or holds no eligible top, no eligible bottom or no
\* eligible shoes (which covers the case where no item at all is eligible).
NothingToSuggest ==
  \/ Len(clothing_items) = 0
  \/ \E type \in {"top", "bottom", "shoes"} :
       \A i \in 1..Len(clothing_items) :
         clothing_items[i].type = type => ~Eligible(clothing_items[i])

\* C12: when the wardrobe is empty, no item survives the filter, or a core category
\* has no surviving item, the call does not fail: an empty wardrobe returns at once
\* without reading the history, and the call returns the empty list.
C12_EmptyResultNotError ==
  (NothingToSuggest /\ error = "none") =>
    /\ pc # "failed"
    /\ suggestions = <<>>
    /\ (Len(clothing_items) = 0 /\ pc # "start") => (Done /\ recentlyWorn = NoWorn)
    /\ Done => candidates = <<>>

\* C12 witness: a call returned although items survived the filter, a core category
\* being without eligible item.
C12_Witness ==
  Done /\ error = "none" /\ NothingToSuggest /\ filteredItems # <<>>

\* The data fetchWeather builds from a provider answer received now.
BuiltNow(call, data) ==
  \E response \in ProviderResponses(call.temperatureUnit, call.latitude) :
    data = WeatherDataOf(response, clock)

\* What a step may do to a request or a call once a read or the provider is involved.
C13_Step ==
  /\ pc = "failed" => pc' = "failed" /\ suggestions' = <<>>
  /\ (pc = "start" /\ pc' = "failed") => error' = "item_store" /\ allItems' = <<>>
  /\ (pc = "items_fetched" /\ pc' = "failed") => error' = "history_store"
  /\ \A c \in Callers :
       (calls[c].pc = "awaiting" /\ calls'[c].pc # "awaiting") =>
         \/ /\ calls'[c].pc = "thrown"
            /\ calls'[c].result = "Failed to fetch weather"
            /\ cache'[getCacheKey(calls[c].latitude, calls[c].longitude)] = NoEntry
         \/ /\ calls'[c].pc = "returned"
            /\ BuiltNow(calls[c], calls'[c].result)

\* C13: a failed read of the item store or of the wear history rejects the call,
\* which returns no list, partial or default; a fetchWeather call that went to the
\* provider either throws, leaving no cache entry for its key, or returns the data
\* built from the answer just received, never a cached or default one.
C13_FailuresPropagate ==
  /\ [](error # "none" <=> pc = "failed")
  /\ [](pc = "failed" => suggestions = <<>> /\ candidates = <<>> /\ scoredOutfits = <<>>)
  /\ [](\A c \in Callers : calls[c].pc = "thrown" => calls[c].result = "Failed to fetch weather")
  /\ [][C13_Step]_vars

\* C13 witness: the wear-history read has failed, and a fetchWeather call has thrown
\* for a key another call had stored an entry for.
C13_Witness ==
  /\ pc = "failed" /\ error = "history_store"
  /\ \E c1, c2 \in Callers :
       /\ calls[c1].pc = "returned"
       /\ calls[c2].pc = "thrown"
       /\ getCacheKey(calls[c1].latitude, calls[c1].longitude)
            = getCacheKey(calls[c2].latitude, calls[c2].longitude)

\* A warmth rating the bands are defined for.
ValidWarmth(item) == item.warmth_rating \in 1..5

\* C14 as stated: an item whose warmth rating is outside [1,5] makes the run fail,
\* and is never accepted by the filter nor part of a scored candidate or suggestion.
C14_MalformedWarmthFailsLoudly ==
  /\ (pc # "start" /\ \E i \in 1..Len(clothing_items) : ~ValidWarmth(clothing_items[i]))
       => pc = "failed"
  /\ \A i \in 1..Len(filteredItems) : ValidWarmth(filteredItems[i])
  /\ \A i \in 1..Len(scoredOutfits) :
       \A j \in 1..Len(NonNullItems(scoredOutfits[i].candidate)) :
         ValidWarmth(NonNullItems(scoredOutfits[i].candidate)[j])
  /\ \A i \in 1..Len(suggestions) :
       \A item \in SuggestionItems(suggestions[i]) : ValidWarmth(item)

\* C14 amended: an item whose warmth rating is missing passes the weather check at
\* every temperature, so it survives the filter whenever its formality and season
\* fit; no step fails because of it; it is part of scored candidates, its rating
\* counting as 0 in the warmth average, and it can be suggested.
C14_MalformedWarmthAccepted ==
  /\ error = "none" => pc # "failed"
  /\ Done =>
       /\ \A i \in 1..Len(allItems) :
            (~ValidWarmth(allItems[i]) /\ WithinOneLevel(allItems[i])
               /\ SeasonCompatible(allItems[i]))
              => allItems[i] \in SeqRange(filteredItems)
       /\ \A i \in 1..Len(filteredItems) :
            ValidWarmth(filteredItems[i]) => WithinWidenedBand(filteredItems[i])
       /\ \A i \in 1..Len(scoredOutfits) :
            LET items == NonNullItems(scoredOutfits[i].candidate)
                b == scoredOutfits[i].breakdown
            IN /\ b.weatherScore >= 0 /\ b.weatherScore <= 30 * Scale
               /\ Len(items) = 3
                    => b.weatherScore =
                         Max(0, 30 * Scale
                                  - 6 * Abs(((items[1].warmth_rating + items[2].warmth_rating
                                                + items[3].warmth_rating) * Scale) \div 3
                                            - idealWarmth(weather.temperature)))

\* C14 witness: a suggestion holding the item without warmth rating was returned.
C14_Witness ==
  /\ Done
  /\ \E i \in 1..Len(suggestions) :
       \E item \in SuggestionItems(suggestions[i]) : ~ValidWarmth(item)

\* The five-slot item combination of a returned suggestion and of a logged outfit.
SuggestionTuple(s) ==
  <<s.outfit.top_id, s.outfit.bottom_id, s.outfit.shoes_id, s.outfit.outerwear_id,
    s.outfit.accessory_id>>

LogTuple(log) ==
  <<log.top_id, log.bottom_id, log.shoes_id, log.outerwear_id, log.accessory_id>>

\* C15: no returned suggestion has the item combination of an outfit logged as worn
\* on the request day or one of the 7 days before it.
C15_NoOutfitRepeatedWithinSevenDays ==
  Done =>
    \A i \in 1..Len(suggestions) :
      \A log \in outfit_logs :
        (log.worn_date >= 0 - 7 /\ log.worn_date <= 0)
          => SuggestionTuple(suggestions[i]) # LogTuple(log)

\* The wear history has been read by the current call.
WornFetched == pc = "worn_fetched" \/ (pc = "done" /\ allItems # <<>>)

\* The ids in both sets of the wear-history analysis.
InBothSets == recentlyWorn.lastTwoDays \cap recentlyWorn.lastSevenDays

\* C16 as stated: no item id is in both lastTwoDays and lastSevenDays.
C16_SetsDisjoint == InBothSets = {}

\* C16 amended: the two sets together hold the ids of the logs of the last 7 days;
\* an id is in both sets only when it belongs to two logs, one on each side of the
\* two-day threshold; a scored candidate holding such an id is treated as worn in
\* the last 2 days (freshness 0).
C16_OverlapOnlyAcrossLogs ==
  WornFetched =>
    /\ recentlyWorn.lastTwoDays \cup recentlyWorn.lastSevenDays
         = UNION {LogItemIds(log) : log \in {l \in outfit_logs : l.worn_date >= 0 - 7}}
    /\ \A id \in InBothSets :
         \E l1, l2 \in outfit_logs :
           /\ id \in LogItemIds(l1) \cap LogItemIds(l2)
           /\ l1.worn_date > l2.worn_date
           /\ l1.worn_date >= 0 - 2
           /\ l2.worn_date <= 0 - 2 /\ l2.worn_date >= 0 - 7
    /\ \A i \in 1..Len(scoredOutfits) :
         CandidateIds(scoredOutfits[i].candidate) \cap InBothSets # {}
           => scoredOutfits[i].breakdown.freshnessScore = 0

\* C16 witness: an item of an outfit logged 1 day ago and again 5 days ago is in
\* both sets, and a candidate holding it has been scored.
C16_Witness ==
  /\ Done
  /\ \E l1, l2 \in outfit_logs :
       /\ l1.worn_date = 0 - 1 /\ l2.worn_date = 0 - 5
       /\ LogItemIds(l1) \cap LogItemIds(l2) \cap InBothSets # {}
  /\ \E i \in 1..Len(scoredOutfits) :
       CandidateIds(scoredOutfits[i].candidate) \cap InBothSets # {}

\* The ids of the logs whose worn-date lies between two calendar days (inclusive).
IdsWornBetween(first, last) ==
  UNION {LogItemIds(log) :
           log \in {l \in outfit_logs : l.worn_date >= first /\ l.worn_date <= last}}

\* C17: whatever the time of day of the run, lastTwoDays holds the ids of the logs
\* dated today, 1 or 2 days ago, and lastSevenDays those of the logs dated 3 to 7
\* days ago.
C17_BucketsByCalendarDay ==
  WornFetched =>
    /\ recentlyWorn.lastTwoDays = IdsWornBetween(0 - 2, 0)
    /\ recentlyWorn.lastSevenDays = IdsWornBetween(0 - 7, 0 - 3)

\* The item records held by a candidate.
CandidateItems(candidate) == SeqRange(NonNullItems(candidate))

\* Every item record the call holds is a record of the wardrobe store, field by field.
HeldItemsAreStoreRecords ==
  /\ allItems \in {<<>>, Reverse(clothing_items)}
  /\ SeqRange(filteredItems) \subseteq SeqRange(clothing_items)
  /\ \A i \in 1..Len(candidates) : CandidateItems(candidates[i]) \subseteq SeqRange(clothing_items)
  /\ \A i \in 1..Len(scoredOutfits) : scoredOutfits[i].candidate = candidates[i]
  /\ \A i \in 1..Len(suggestions) :
       SuggestionItems(suggestions[i]) \subseteq SeqRange(clothing_items)

\* No step of a call changes a row of the two tables or the item list it has read.
C18_Step ==
  /\ clothing_items' = clothing_items
  /\ outfit_logs' = outfit_logs
  /\ allItems # <<>> => allItems' = allItems

\* C18: a run of generateOutfitSuggestions leaves the wardrobe store and the wear
\* history as they were (no row changed, added or deleted), and the item records it
\* read stay equal to the store's, whether it returns suggestions or the empty list.
C18_StoresAndItemsUnchanged ==
  /\ [][C18_Step]_vars
  /\ []HeldItemsAreStoreRecords

\* C18 witness: a call returned suggestions over a history holding a log older than
\* the 7-day window.
C18_Witness ==
  /\ Done /\ suggestions # <<>>
  /\ \E log \in outfit_logs : log.worn_date < 0 - 7

\* The number of items of a type in the filtered pool.
N(type) == CountOfType(filteredItems, type)

\* The candidates have been generated by the current call.
Generated == Done /\ allItems # <<>>

\* C19: the candidates are pairwise distinct; with core counts N_t, N_b, N_s they
\* number N_t*N_b*N_s*(N_o+1)*(N_a+1) at 50 degrees or more, N_t*N_b*N_s*N_o*(N_a+1)
\* below 50 with outerwear in the pool (every candidate then has outerwear), and
\* N_t*N_b*N_s*(N_a+1) below 50 without (no candidate has outerwear); none is
\* generated when a core type is missing.
C19_CandidateCount ==
  Generated =>
    LET core == N("top") * N("bottom") * N("shoes")
    IN /\ Cardinality(SeqRange(candidates)) = Len(candidates)
       /\ weather.temperature >= 50
            => Len(candidates) = core * (N("outerwear") + 1) * (N("accessory") + 1)
       /\ (weather.temperature < 50 /\ N("outerwear") > 0)
            => /\ Len(candidates) = core * N("outerwear") * (N("accessory") + 1)
               /\ \A i \in 1..Len(candidates) : candidates[i].outerwear # Null
       /\ (weather.temperature < 50 /\ N("outerwear") = 0)
            => /\ Len(candidates) = core * (N("accessory") + 1)
               /\ \A i \in 1..Len(candidates) : candidates[i].outerwear = Null
       /\ (N("top") = 0 \/ N("bottom") = 0 \/ N("shoes") = 0) => candidates = <<>>

\* C19 witness: below 50 degrees, a pool with two outerwear items and an accessory
\* gave four candidates for each of its core triples.
C19_Witness ==
  /\ Generated
  /\ weather.temperature < 50
  /\ N("top") * N("bottom") * N("shoes") > 0
  /\ N("outerwear") = 2 /\ N("accessory") = 1
  /\ Len(candidates) = 4 * N("top") * N("bottom") * N("shoes")

\* The level the claim gives each formality: casual 0, business_casual 1, formal 2.
LevelOf(formality) ==
  CASE formality = "casual" -> 0
    [] formality = "business_casual" -> 1
    [] formality = "formal" -> 2

\* C20: isFormalityCompatible holds exactly for the pairs whose levels differ by at
\* most 1: an exact match passes, casual against formal fails either way, the
\* relation is symmetric; the filter of a call keeps no item failing it against
\* the requested formality.
C20_FormalityWithinOneLevel ==
  /\ \A a, b \in FormalityLevel :
       /\ isFormalityCompatible(a, b) <=> Abs(LevelOf(a) - LevelOf(b)) <= 1
       /\ isFormalityCompatible(a, b) <=> isFormalityCompatible(b, a)
       /\ a = b => isFormalityCompatible(a, b)
  /\ ~isFormalityCompatible("casual", "formal")
  /\ ~isFormalityCompatible("formal", "casual")
  /\ Generated =>
       /\ \A i \in 1..Len(filteredItems) :
            Abs(LevelOf(filteredItems[i].formality_level) - LevelOf(formalityPreference)) <= 1
       /\ \A i \in 1..Len(allItems) :
            (Abs(LevelOf(allItems[i].formality_level) - LevelOf(formalityPreference)) <= 1
               /\ WithinWidenedBand(allItems[i]) /\ SeasonCompatible(allItems[i]))
              => allItems[i] \in SeqRange(filteredItems)

\* C20 witness: a casual request whose filter kept a business_casual item and
\* dropped a formal one.
C20_Witness ==
  /\ Generated
  /\ formalityPreference = "casual"
  /\ \E i \in 1..Len(filteredItems) : filteredItems[i].formality_level = "business_casual"
  /\ \E i \in 1..Len(allItems) :
       /\ allItems[i].formality_level = "formal"
       /\ allItems[i] \notin SeqRange(filteredItems)
       /\ WithinWidenedBand(allItems[i]) /\ SeasonCompatible(allItems[i])

\* The widened band of each warmth rating, its two ends included.
WidenedBand ==
  <<[from |-> 65, to |-> 130], [from |-> 55, to |-> 95], [from |-> 40, to |-> 80],
    [from |-> 25, to |-> 65], [from |-> 0 - 30, to |-> 60]>>

InWidenedBand(item, temperature) ==
  /\ temperature >= WidenedBand[item.warmth_rating].from
  /\ temperature <= WidenedBand[item.warmth_rating].to

\* C21: an item of warmth 1..5 passes the weather check exactly when the temperature
\* is within its band widened by 10 degrees, both ends included, whatever the
\* weather condition; the filter of a call keeps exactly those items.
C21_WeatherBands ==
  /\ \A i \in 1..Len(clothing_items) :
       \A condition \in WeatherCondition :
         isWeatherAppropriate(clothing_items[i], Weather(weather.temperature, condition))
           <=> InWidenedBand(clothing_items[i], weather.temperature)
  /\ Generated =>
       \A i \in 1..Len(allItems) :
         allItems[i] \in SeqRange(filteredItems)
           <=> InWidenedBand(allItems[i], weather.temperature)

\* C21 witness: in the rain at 40 degrees, the lower end of the band of warmth 3, the
\* filter kept the top of warmth 3 and dropped the other items, of warmth 1.
C21_Witness ==
  /\ Generated
  /\ weather = Weather(40, "rain")
  /\ \E i \in 1..Len(filteredItems) : filteredItems[i].warmth_rating = 3
  /\ \E i \in 1..Len(allItems) :
       allItems[i].warmth_rating = 1 /\ allItems[i] \notin SeqRange(filteredItems)

\* The ideal average warmth of a temperature, in halves of a rating.
IdealHalves(temperature) ==
  CASE temperature >= 75 -> 3
    [] temperature >= 60 /\ temperature < 75 -> 5
    [] temperature >= 45 /\ temperature < 60 -> 7
    [] temperature < 45 -> 9

\* A tag that earns the wet-weather bonus.
IsWaterTag(tag) == toLowerCase(tag) \in {"waterproof", "rain", "water-resistant"}

\* clamp to [0,30] of 30 - 6*|avgWarmth - ideal| + 5 (outerwear below 50 degrees)
\* + 5 (rain or snow and a water tag), for a candidate; a null slot counts for nothing.
ExpectedWeatherScore(candidate) ==
  LET slots == {"top", "bottom", "shoes", "outerwear", "accessory"}
      present == {slot \in slots : candidate[slot] # Null}
      n == Cardinality(present)
      total == candidate.top.warmth_rating + candidate.bottom.warmth_rating
                 + candidate.shoes.warmth_rating + candidate.outerwear.warmth_rating
                 + candidate.accessory.warmth_rating
      \* |total/n - ideal/2| * 6 * Scale = |2*total - n*ideal| * 3 * Scale / n
      loss == (Abs(2 * total - n * IdealHalves(weather.temperature)) * 3 * Scale) \div n
      coldBonus == IF weather.temperature < 50 /\ "outerwear" \in present THEN 5 * Scale ELSE 0
      wetBonus == IF /\ weather.condition \in {"rain", "snow"}
                     /\ \E slot \in present : \E tag \in candidate[slot].tags : IsWaterTag(tag)
                    THEN 5 * Scale ELSE 0
      raw == 30 * Scale - loss + coldBonus + wetBonus
  IN IF raw < 0 THEN 0 ELSE IF raw > 30 * Scale THEN 30 * Scale ELSE raw

\* C22: the weather score of every scored candidate is the clamp to [0,30] of
\* 30 - 6*|avgWarmth - ideal| plus 5 for outerwear below 50 degrees plus 5 for a
\* water tag in rain or snow, the ideal being 1.5 from 75 degrees, 2.5 from 60,
\* 3.5 from 45 and 4.5 below; it never exceeds 30.
C22_WeatherScoreFormula ==
  \A i \in 1..Len(scoredOutfits) :
    /\ scoredOutfits[i].breakdown.weatherScore = ExpectedWeatherScore(scoredOutfits[i].candidate)
    /\ scoredOutfits[i].breakdown.weatherScore <= 30 * Scale

\* C22 witness: at 45 degrees in the rain, a candidate of four items of warmth 4 with
\* waterproof outerwear earns both bonuses (27 + 5 + 5) and scores 30.
C22_Witness ==
  /\ Generated
  /\ weather = Weather(45, "rain")
  /\ \E i \in 1..Len(scoredOutfits) :
       /\ scoredOutfits[i].candidate.outerwear # Null
       /\ \A j \in 1..Len(NonNullItems(scoredOutfits[i].candidate)) :
            NonNullItems(scoredOutfits[i].candidate)[j].warmth_rating = 4
       /\ scoredOutfits[i].breakdown.weatherScore = 30 * Scale

\* The freshness points of a candidate with n item ids in the penalized set.
FreshnessPoints(n) ==
  CASE n = 0 -> 25
    [] n = 1 -> 15
    [] n = 2 -> 8
    [] n >= 3 -> 5

\* The number of item ids of a candidate in the penalized set.
PenalizedCount(candidate) ==
  Cardinality(CandidateIds(candidate) \cap recentlyWorn.lastSevenDays)

ValidPositions == {i \in 1..Len(scoredOutfits) : scoredOutfits[i].score > 0}

\* The valid candidates that come before the one at position i when the valid
\* candidates are listed by descending score, equal scores in their original order.
RankedBefore(i) ==
  {j \in ValidPositions :
     \/ scoredOutfits[j].score > scoredOutfits[i].score
     \/ scoredOutfits[j].score = scoredOutfits[i].score /\ j < i}

\* A suggestion is the scored candidate at position i.
IsSuggestionOf(s, i) ==
  /\ s.outfit = candidateToOutfitWithItems(scoredOutfits[i].candidate)
  /\ s.score = scoredOutfits[i].score

\* Every suggestion of a list is one of the 20 first valid candidates by score.
WithinPool(list) ==
  \A k \in 1..Len(list) :
    /\ \E i \in ValidPositions :
         IsSuggestionOf(list[k], i) /\ Cardinality(RankedBefore(i)) < 20
    /\ Cardinality({j \in ValidPositions : scoredOutfits[j].score > list[k].score}) < 20

\* C24: at most K suggestions are returned, and each of them is one of the min(20, n)
\* highest-scoring of the n candidates with a total score above 0: fewer than 20
\* valid candidates score higher than a returned suggestion.
C24_SuggestionsFromPoolOfTwenty ==
  Generated =>
    /\ Len(suggestions) <= SuggestionCount
    /\ WithinPool(suggestions)
    /\ \A count \in 1..MaxCount :
         /\ Len(selectTopSuggestions(scoredOutfits, count, weather)) <= count
         /\ WithinPool(selectTopSuggestions(scoredOutfits, count, weather))

\* C24 witness: suggestions were returned although more than 20 candidates were
\* valid, one of them scoring less than every returned suggestion.
C24_Witness ==
  /\ Generated
  /\ Cardinality(ValidPositions) > 20
  /\ suggestions # <<>>
  /\ \E j \in ValidPositions :
       /\ Cardinality(RankedBefore(j)) >= 20
       /\ \A k \in 1..Len(suggestions) : scoredOutfits[j].score < suggestions[k].score

\* The scores of a list do not increase from position first to position last.
NonIncreasing(list, first, last) ==
  \A k \in first..(last - 1) : list[k].score >= list[k + 1].score

\* A list of suggestions for a count is in acceptance order: the suggestions of the
\* diversity pass first, pairwise disjoint and by non-increasing score, then the
\* backfilled ones, each sharing an item with a suggestion of the diversity pass,
\* by non-increasing score among themselves.
AcceptanceOrdered(list, count) ==
  LET diverse == DiversityPass(TopCandidates(scoredOutfits), count, weather)
      d == Len(diverse)
  IN /\ d <= Len(list)
     /\ SubSeq(list, 1, d) = diverse
     /\ PairwiseDisjoint(diverse)
     /\ NonIncreasing(list, 1, d)
     /\ NonIncreasing(list, d + 1, Len(list))
     /\ \A k \in (d + 1)..Len(list) :
          \E j \in 1..d : SuggestionIds(list[k]) \cap SuggestionIds(list[j]) # {}

\* C25: the returned list is in acceptance order: the suggestions accepted by the
\* diversity pass come first in non-increasing score order, the backfilled ones
\* after all of them, in non-increasing score order among themselves.
C25_AcceptanceOrder ==
  Generated =>
    /\ AcceptanceOrdered(suggestions, SuggestionCount)
    /\ \A count \in 1..MaxCount :
         AcceptanceOrdered(selectTopSuggestions(scoredOutfits, count, weather), count)

\* C25 witness: the returned list ends with a backfilled suggestion that scores
\* more than the last suggestion of the diversity pass before it.
C25_Witness ==
  /\ Generated
  /\ Len(suggestions) = SuggestionCount
  /\ Len(DiversityPass(TopCandidates(scoredOutfits), SuggestionCount, weather)) = 2
  /\ suggestions[3].score > suggestions[2].score

\* One hour, in milliseconds.
OneHour == 3600000

\* The key's cache entry exists and the current time is strictly before one hour
\* after the fetch that stored it.
Unexpired(key) ==
  cache[key] # NoEntry /\ clock < cache[key].data.timestamp + OneHour

\* A fetchWeather call that starts answers from the cache exactly when the entry of
\* its key is unexpired, and goes to the provider otherwise.
C26_Step ==
  \A c \in Callers :
    (calls[c].pc = "idle" /\ calls'[c].pc # "idle") =>
      LET key == getCacheKey(calls'[c].latitude, calls'[c].longitude)
      IN IF Unexpired(key)
           THEN calls'[c].pc = "returned" /\ calls'[c].result = cache[key].data
           ELSE calls'[c].pc = "awaiting" /\ calls'[c].result = "none"

\* C26: a cache entry expires one hour after the successful fetch that stored it;
\* fetchWeather and getCachedWeather return the cached snapshot of a key only while
\* the current time is strictly before the expiry; once it is reached, fetchWeather
\* calls the provider again and getCachedWeather returns null.
C26_CacheTimeToLive ==
  /\ [](\A key \in CacheKeys :
          cache[key] # NoEntry => cache[key].expiresAt = cache[key].data.timestamp + OneHour)
  /\ [](\A l \in Locations :
          getCachedWeather(l[1], l[2]) =
            IF Unexpired(getCacheKey(l[1], l[2]))
              THEN cache[getCacheKey(l[1], l[2])].data ELSE NullWeather)
  /\ [][C26_Step]_vars

\* C26 witness: exactly one hour after a fetch stored an entry, the entry is still
\* in the cache, getCachedWeather returns null for its location and a new call for
\* it is waiting for the provider.
C26_Witness ==
  \E c \in Callers :
    LET key == getCacheKey(calls[c].latitude, calls[c].longitude)
    IN /\ calls[c].pc = "awaiting"
       /\ cache[key] # NoEntry
       /\ cache[key].data.timestamp = 0
       /\ clock = OneHour
       /\ getCachedWeather(calls[c].latitude, calls[c].longitude) = NullWeather
       /\ \E c1 \in Callers : calls[c1].pc = "returned" /\ calls[c1].result = cache[key].data

BestFirst(list) ==
  list # <<>> =>
    /\ \E i \in ValidPositions : IsSuggestionOf(list[1], i)
    /\ \A i \in ValidPositions : scoredOutfits[i].score <= list[1].score
    /\ \A k \in 1..Len(list) : list[k].score <= list[1].score

\* C28: when the call returns a non-empty list, its first suggestion is a candidate
\* of maximum total score among the candidates of score above 0, and no returned
\* suggestion scores more than the first.
C28_BestCandidateFirst ==
  Generated =>
    /\ BestFirst(suggestions)
    /\ \A count \in 1..MaxCount : BestFirst(selectTopSuggestions(scoredOutfits, count, weather))

\* C28 witness: three suggestions were returned, the first scoring more than the
\* candidate generated first and more than the last suggestion.
C28_Witness ==
  /\ Generated
  /\ Len(suggestions) = SuggestionCount
  /\ scoredOutfits[1].score < suggestions[1].score
  /\ suggestions[3].score < suggestions[1].score

\* The data of a call's result is what the provider gives for the unit and place
\* the call asked for.
InRequestedUnit(call) ==
  \E response \in ProviderResponses(call.temperatureUnit, call.latitude) :
    /\ call.result.temperature = MathRound(response.temperature_2m)
    /\ call.result.feels_like = MathRound(response.apparent_temperature)

\* C29: the snapshot a fetchWeather call returns is expressed in the temperature
\* unit the call asked for, also when it comes from an unexpired cache entry stored
\* by an earlier call made with the other unit.
C29_SnapshotInRequestedUnit ==
  \A c \in Callers : calls[c].pc = "returned" => InRequestedUnit(calls[c])

\* The key's entry is the one a successful call stored and has not expired.
StoredAndUnexpired(key) == cache[key] # NoEntry /\ cache[key].expiresAt > clock

\* A step in which a fetchWeather call fails (its catch block runs).
SomeCallFails ==
  \E c \in Callers : calls[c].pc = "awaiting" /\ calls'[c].pc = "thrown"

\* An unexpired entry survives every step in which a call fails.
C30_Step ==
  \A key \in CacheKeys :
    (StoredAndUnexpired(key) /\ SomeCallFails) => cache'[key] = cache[key]

\* C30: under any interleaving of fetchWeather calls for one location key, an
\* unexpired cache entry stored by a successful call is not removed by the failure
\* of another call.
C30_FreshEntrySurvivesFailure == [][C30_Step]_vars

====
